---- MODULE Spec2Model ----
(***************************************************************************)
(* State-machine model of the_snake.py: the body (SnakeInternal), the      *)
(* target (AppleInternal), the controller (GameController) and the main    *)
(* loop.  Positions are pixel pairs <<x, y>>; rendering calls that only    *)
(* paint are left out, the state they change (_last) is kept.              *)
(*                                                                         *)
(* Two specifications share the state:                                     *)
(*   Spec     the program: main()'s loop, tick after tick;                 *)
(*   SpecApi  the SnakeInternal object driven by arbitrary call sequences  *)
(*            (update_direction, move, increase, reset).                   *)
(***************************************************************************)
EXTENDS Integers, Sequences, FiniteSets

(* ------------------------------ bounds --------------------------------- *)
\* The playfield of the source is 32 x 24 cells of 20 pixels; the model
\* keeps the arithmetic and shrinks the extents.
GRID_SIZE == 2
GRID_WIDTH == 3
GRID_HEIGHT == 3
\* Longest list of trailing segments explored (a growing move() is not
\* taken beyond it).
MaxLen == 3

(* ----------------------------- constants ------------------------------- *)
SCREEN_WIDTH == GRID_WIDTH * GRID_SIZE
SCREEN_HEIGHT == GRID_HEIGHT * GRID_SIZE
\* (SCREEN_WIDTH // 2, SCREEN_HEIGHT // 2) and (SCREEN_WIDTH // 4,
\* SCREEN_HEIGHT // 4) are cell-aligned in the source (32 and 24 cells are
\* multiples of 4); the cell index is halved / quartered here so that the
\* start positions stay cell-aligned for every extent.
START_APPLE_POSITION == <<(GRID_WIDTH \div 2) * GRID_SIZE, (GRID_HEIGHT \div 2) * GRID_SIZE>>
START_SNAKE_POSITION == <<(GRID_WIDTH \div 4) * GRID_SIZE, (GRID_HEIGHT \div 4) * GRID_SIZE>>

UP == <<0, -1>>
DOWN == <<0, 1>>
LEFT == <<-1, 0>>
RIGHT == <<1, 0>>
START_SNAKE_DIRECTION == RIGHT
Directions == {UP, DOWN, LEFT, RIGHT}

\* Python's None (an Optional that is unset).
None == <<>>

\* The key codes handle_keys looks at.
Keys == {"K_UP", "K_DOWN", "K_LEFT", "K_RIGHT"}

(* ------------------------------- state --------------------------------- *)
VARIABLES
    snake_position,   \* SnakeInternal._position: the head
    _positions,       \* SnakeInternal._positions: trailing segments, index 1 = behind the head
    _tail_cache,      \* SnakeInternal._tail_cache: occupancy set
    _direction,       \* SnakeInternal._direction
    next_direction,   \* SnakeInternal.next_direction (None when unset)
    _increase,        \* SnakeInternal._increase
    _last,            \* SnakeInternal._last: the cell to erase (None when unset)
    apple_position,   \* AppleInternal._position
    last_pos,         \* local last_pos of the running randomize_position call (None outside)
    pc,               \* position of main(): "keys", "move", "check", "relocate", "draw", "quit"
    ret,              \* the value move() returned in this tick
    fault,            \* TRUE once a call has raised (KeyError in move)
    op,               \* the last call made on the body ("key_ignored": a key event dropped)
    pre,              \* the body as the last move() / increase() / reset() found it (None otherwise)
    reloc             \* this tick's randomize_apple (None if none): start position, reason, retried

vars == <<snake_position, _positions, _tail_cache, _direction, next_direction,
          _increase, _last, apple_position, last_pos, pc, ret, fault, op, pre, reloc>>

snake_vars == <<snake_position, _positions, _tail_cache, _direction, next_direction,
                _increase, _last>>

(* ------------------------------ helpers -------------------------------- *)
\* set(list)
SeqToSet(s) == {s[i] : i \in 1..Len(s)}

\* Mutant of Front: the first element is popped instead of the last.
Front_PopFirst(s) == SubSeq(s, 2, Len(s))

\* Mutant of Front: the pop is forgotten.
Front_Keep(s) == s

\* list.pop(): the list without its last element
Front(s) == SubSeq(s, 1, Len(s) - 1)

Cells == {<<cx * GRID_SIZE, cy * GRID_SIZE>> : cx \in 0..(GRID_WIDTH - 1), cy \in 0..(GRID_HEIGHT - 1)}

(* ------------------------- SnakeInternal ------------------------------- *)
\* Mutant of is_point_in_snake: the test is inverted.
is_point_in_snake_Inverted(cache, point) == point \notin cache

\* Mutant of is_point_in_snake: the test never finds the point.
is_point_in_snake_Never(cache, point) == FALSE

\* is_point_in_snake(point), on a given occupancy set
is_point_in_snake(cache, point) == point \in cache

\* Mutant of WrapAxis: the upper test compares with the extent itself.
WrapAxis_OffByOne(v, extent) ==
    LET a == IF v < 0 THEN extent - GRID_SIZE ELSE v
    IN  IF a > extent THEN 0 ELSE a

\* One axis of _get_next_head(): the two tests, in the order of the code.
WrapAxis(v, extent) ==
    LET a == IF v < 0 THEN extent - GRID_SIZE ELSE v
    IN  IF a > extent - GRID_SIZE THEN 0 ELSE a

\* _get_next_head(): one cell along dir from pos, each axis wrapped
_get_next_head(pos, dir) ==
    <<WrapAxis(pos[1] + dir[1] * GRID_SIZE, SCREEN_WIDTH),
      WrapAxis(pos[2] + dir[2] * GRID_SIZE, SCREEN_HEIGHT)>>

\* The body as a call finds it (kept in pre).
Snapshot ==
    [position |-> snake_position, positions |-> _positions, cache |-> _tail_cache,
     direction |-> _direction, next_direction |-> next_direction, increase |-> _increase]

\* Mutant of update_direction: a request does not replace one already pending.
update_direction_FirstWins(d) ==
    /\ next_direction' = IF next_direction = None THEN d ELSE next_direction
    /\ op' = "update_direction"
    /\ pre' = None
    /\ UNCHANGED <<snake_position, _positions, _tail_cache, _direction, _increase, _last>>

\* update_direction(next_direction)
update_direction(d) ==
    /\ next_direction' = d
    /\ op' = "update_direction"
    /\ pre' = None
    /\ UNCHANGED <<snake_position, _positions, _tail_cache, _direction, _increase, _last>>

\* The direction move() commits.
CommitDirection == IF next_direction = None THEN _direction ELSE next_direction

\* Mutant of InsertFront: the head is appended behind the tail.
InsertFront_Back(seq, pt) == seq \o <<pt>>

\* _positions.insert(0, pt)
InsertFront(seq, pt) == <<pt>> \o seq

\* Mutant of CacheRemove: the dropped tail stays in the set.
CacheRemove_Keep(cache, pt) == cache

\* _tail_cache.remove(pt), for pt in the set
CacheRemove(cache, pt) == cache \ {pt}

\* Mutant of CacheAdd: the inserted segment is not mirrored into the set.
CacheAdd_Skip(cache, pt) == cache

\* _tail_cache.add(pt)
CacheAdd(cache, pt) == cache \cup {pt}

\* move(): commit the direction, update the segments, advance the head,
\* return the collision test.  set.remove of an absent element raises
\* KeyError after the pop and the assignment of _last were done.
move ==
    /\ _direction' = CommitDirection
    /\ next_direction' = None
    /\ op' = "move"
    /\ pre' = Snapshot
    /\ IF _increase = FALSE
       THEN IF Len(_positions) > 0
            THEN IF _positions[Len(_positions)] \in _tail_cache
                 THEN /\ _last' = _positions[Len(_positions)]
                      /\ _positions' = InsertFront(Front(_positions), snake_position)
                      /\ _tail_cache' = CacheAdd(CacheRemove(_tail_cache, _positions[Len(_positions)]),
                                                 snake_position)
                      /\ snake_position' = _get_next_head(snake_position, _direction')
                      /\ ret' = is_point_in_snake(_tail_cache', snake_position')
                      /\ UNCHANGED <<_increase, fault>>
                 ELSE /\ _last' = _positions[Len(_positions)]
                      /\ _positions' = Front(_positions)
                      /\ fault' = TRUE
                      /\ UNCHANGED <<_tail_cache, snake_position, _increase, ret>>
            ELSE /\ _last' = snake_position
                 /\ snake_position' = _get_next_head(snake_position, _direction')
                 /\ ret' = is_point_in_snake(_tail_cache, snake_position')
                 /\ UNCHANGED <<_positions, _tail_cache, _increase, fault>>
       ELSE /\ _positions' = InsertFront(_positions, snake_position)
            /\ _tail_cache' = CacheAdd(_tail_cache, snake_position)
            /\ _increase' = FALSE
            /\ snake_position' = _get_next_head(snake_position, _direction')
            /\ ret' = is_point_in_snake(_tail_cache', snake_position')
            /\ UNCHANGED <<_last, fault>>

\* increase()
increase ==
    /\ _increase' = TRUE
    /\ op' = "increase"
    /\ pre' = Snapshot
    /\ UNCHANGED <<snake_position, _positions, _tail_cache, _direction, next_direction, _last>>

\* Mutant of reset: the segment list is not emptied.
reset_KeepPositions ==
    /\ _last' = None
    /\ _direction' = START_SNAKE_DIRECTION
    /\ next_direction' = None
    /\ _tail_cache' = {}
    /\ op' = "reset"
    /\ pre' = Snapshot
    /\ UNCHANGED <<snake_position, _positions, _increase>>

\* Mutant of reset: the head is put back on the start position.
reset_HeadToStart ==
    /\ _last' = None
    /\ _positions' = <<>>
    /\ _direction' = START_SNAKE_DIRECTION
    /\ next_direction' = None
    /\ _tail_cache' = {}
    /\ snake_position' = START_SNAKE_POSITION
    /\ op' = "reset"
    /\ pre' = Snapshot
    /\ UNCHANGED _increase

\* Mutant of reset: _tail_cache.clear() is forgotten.
reset_NoCacheClear ==
    /\ _last' = None
    /\ _positions' = <<>>
    /\ _direction' = START_SNAKE_DIRECTION
    /\ next_direction' = None
    /\ op' = "reset"
    /\ pre' = Snapshot
    /\ UNCHANGED <<snake_position, _increase, _tail_cache>>

\* reset(): _erase_last, then the four assignments; _increase and the head
\* are not assigned.
reset ==
    /\ _last' = None
    /\ _positions' = <<>>
    /\ _direction' = START_SNAKE_DIRECTION
    /\ next_direction' = None
    /\ _tail_cache' = {}
    /\ op' = "reset"
    /\ pre' = Snapshot
    /\ UNCHANGED <<snake_position, _increase>>

\* draw(): paints, then _erase_last()
draw ==
    /\ _last' = None
    /\ op' = "draw"
    /\ pre' = None
    /\ UNCHANGED <<snake_position, _positions, _tail_cache, _direction, next_direction, _increase>>

(* ------------------------- AppleInternal ------------------------------- *)
\* The position randomize_position assigns for the samples x, y.
Aligned(x, y) == <<x - (x % GRID_SIZE), y - (y % GRID_SIZE)>>

(* ------------------------- GameController ------------------------------ *)
\* The direction handle_keys forwards for key k.
KeyDirection(k) ==
    CASE k = "K_UP" -> UP
      [] k = "K_DOWN" -> DOWN
      [] k = "K_LEFT" -> LEFT
      [] k = "K_RIGHT" -> RIGHT

\* Mutant of KeyAccepted: the test reads the pending direction when one is set.
KeyAccepted_AgainstPending(k) ==
    \/ k = "K_UP" /\ CommitDirection # DOWN
    \/ k = "K_DOWN" /\ CommitDirection # UP
    \/ k = "K_LEFT" /\ CommitDirection # RIGHT
    \/ k = "K_RIGHT" /\ CommitDirection # LEFT

\* The tests under which handle_keys forwards key k.
KeyAccepted(k) ==
    \/ k = "K_UP" /\ _direction # DOWN
    \/ k = "K_DOWN" /\ _direction # UP
    \/ k = "K_LEFT" /\ _direction # RIGHT
    \/ k = "K_RIGHT" /\ _direction # LEFT

\* randomize_apple() starts: the first randomize_position call reads last_pos.
StartRelocation(why) ==
    /\ reloc' = [start |-> apple_position, why |-> why, retried |-> FALSE]
    /\ last_pos' = apple_position
    /\ pc' = "relocate"

(* ------------------------------ main() --------------------------------- *)
Init ==
    /\ snake_position = START_SNAKE_POSITION
    /\ _positions = <<>>
    /\ _tail_cache = {}
    /\ _direction = START_SNAKE_DIRECTION
    /\ next_direction = None
    /\ _increase = FALSE
    /\ _last = None
    /\ apple_position = START_APPLE_POSITION
    /\ last_pos = None
    /\ pc = "keys"
    /\ ret = FALSE
    /\ fault = FALSE
    /\ op = "init"
    /\ pre = None
    /\ reloc = None

\* handle_keys: one KEYDOWN event of the tick's event list; a key whose
\* test fails changes nothing (op notes that it was dropped).
KeyDown(k) ==
    /\ pc = "keys" /\ ~fault
    /\ IF KeyAccepted(k)
       THEN update_direction(KeyDirection(k))
       ELSE /\ op' = "key_ignored"
            /\ pre' = None
            /\ UNCHANGED snake_vars
    /\ UNCHANGED <<apple_position, last_pos, pc, ret, fault, reloc>>

\* handle_keys: a QUIT event; main() leaves its loop.
Quit ==
    /\ pc = "keys" /\ ~fault
    /\ pc' = "quit"
    /\ UNCHANGED <<snake_vars, apple_position, last_pos, ret, fault, op, pre, reloc>>

\* handle_keys returned True; snake.move().
Move ==
    /\ pc = "keys" /\ ~fault
    /\ _increase => Len(_positions) < MaxLen
    /\ move
    /\ pc' = IF fault' THEN "quit" ELSE "check"
    /\ UNCHANGED <<apple_position, last_pos, reloc>>

\* Mutant of Check: validate_snake_head relocates the target in every tick.
Check_AlwaysRelocate ==
    /\ pc = "check" /\ ~fault
    /\ IF ret
       THEN /\ reset
            /\ StartRelocation("reset")
       ELSE IF snake_position = apple_position
            THEN /\ increase
                 /\ StartRelocation("eaten")
            ELSE /\ StartRelocation("eaten")
                 /\ UNCHANGED <<snake_vars, op, pre>>
    /\ UNCHANGED <<apple_position, ret, fault>>

\* Mutant of Check: move()'s result is not looked at.
Check_IgnoreResult ==
    /\ pc = "check" /\ ~fault
    /\ IF snake_position = apple_position
       THEN /\ increase
            /\ StartRelocation("eaten")
       ELSE /\ pc' = "draw"
            /\ UNCHANGED <<snake_vars, op, pre, last_pos, reloc>>
    /\ UNCHANGED <<apple_position, ret, fault>>

\* The branch of main() on move()'s result: reset and relocate, or
\* validate_snake_head.
Check ==
    /\ pc = "check" /\ ~fault
    /\ IF ret
       THEN /\ reset
            /\ StartRelocation("reset")
       ELSE IF snake_position = apple_position
            THEN /\ increase
                 /\ StartRelocation("eaten")
            ELSE /\ pc' = "draw"
                 /\ UNCHANGED <<snake_vars, op, pre, last_pos, reloc>>
    /\ UNCHANGED <<apple_position, ret, fault>>

\* One pass of randomize_position's loop with the samples x, y; when the
\* loop ends, randomize_apple's test follows.
Sample(x, y) ==
    /\ pc = "relocate" /\ ~fault
    /\ apple_position' = Aligned(x, y)
    /\ IF apple_position' = last_pos
       THEN /\ reloc' = [reloc EXCEPT !.retried = TRUE]
            /\ UNCHANGED <<last_pos, pc>>
       ELSE IF is_point_in_snake(_tail_cache, apple_position')
            THEN /\ last_pos' = apple_position'
                 /\ reloc' = [reloc EXCEPT !.retried = TRUE]
                 /\ pc' = "relocate"
            ELSE /\ last_pos' = None
                 /\ pc' = "draw"
                 /\ UNCHANGED reloc
    /\ UNCHANGED <<snake_vars, ret, fault, op, pre>>

\* apple.draw(); snake.draw(); the next tick starts.
Draw ==
    /\ pc = "draw" /\ ~fault
    /\ draw
    /\ pc' = "keys"
    /\ ret' = FALSE
    /\ reloc' = None
    /\ UNCHANGED <<apple_position, last_pos, fault>>

Next ==
    \/ \E k \in Keys : KeyDown(k)
    \/ Quit
    \/ Move
    \/ Check
    \/ \E x \in 0..(SCREEN_WIDTH - GRID_SIZE), y \in 0..(SCREEN_HEIGHT - GRID_SIZE) : Sample(x, y)
    \/ Draw

Spec == Init /\ [][Next]_vars

(* --------------------- main() under fair sampling ---------------------- *)
\* A pass of the retry loops whose sample ends them: it differs from
\* last_pos and is_point_in_snake rejects it.
SampleEnds ==
    \E x \in 0..(SCREEN_WIDTH - GRID_SIZE), y \in 0..(SCREEN_HEIGHT - GRID_SIZE) :
        Sample(x, y) /\ pc' = "draw"

\* randint is uniform: as long as some sample would end the loops, each
\* pass draws one with a fixed positive probability, so one is eventually
\* drawn.
SpecFair == Init /\ [][Next]_vars /\ WF_vars(SampleEnds)

(* ---------------- SnakeInternal under arbitrary calls ------------------ *)
\* A caller of the object alone: any method, in any order, with any
\* direction argument.  ret is the value of the last call when it was move().
ApiUpdateDirection(d) ==
    /\ ~fault
    /\ update_direction(d)
    /\ ret' = FALSE
    /\ UNCHANGED <<apple_position, last_pos, pc, fault, reloc>>

ApiMove ==
    /\ ~fault
    /\ _increase => Len(_positions) < MaxLen
    /\ move
    /\ UNCHANGED <<apple_position, last_pos, pc, reloc>>

ApiIncrease ==
    /\ ~fault
    /\ increase
    /\ ret' = FALSE
    /\ UNCHANGED <<apple_position, last_pos, pc, fault, reloc>>

ApiReset ==
    /\ ~fault
    /\ reset
    /\ ret' = FALSE
    /\ UNCHANGED <<apple_position, last_pos, pc, fault, reloc>>

ApiDraw ==
    /\ ~fault
    /\ draw
    /\ ret' = FALSE
    /\ UNCHANGED <<apple_position, last_pos, pc, fault, reloc>>

NextApi ==
    \/ \E d \in Directions : ApiUpdateDirection(d)
    \/ ApiMove
    \/ ApiIncrease
    \/ ApiReset
    \/ ApiDraw

SpecApi == Init /\ [][NextApi]_vars

(* ============================ properties =============================== *)
\* The opposite of a direction
Opposite(d) == <<-d[1], -d[2]>>

\* list has no element twice
NoDuplicates(s) == Cardinality(SeqToSet(s)) = Len(s)

\* move() has just returned normally (pre holds the body it started from).
Moved == op = "move" /\ ~fault

\* randomize_apple() has just returned (the tick's drawing has not run yet).
Relocated == pc = "draw" /\ reloc # None

\* The cell one step from pos along dir on the torus, by cell index.
TorusStep(pos, dir) ==
    <<((pos[1] \div GRID_SIZE + dir[1] + GRID_WIDTH) % GRID_WIDTH) * GRID_SIZE,
      ((pos[2] \div GRID_SIZE + dir[2] + GRID_HEIGHT) % GRID_HEIGHT) * GRID_SIZE>>

\* C1: in every state of the main loop (so right before and right after
\* every move()), _tail_cache is exactly the set of the positions in
\* _positions, and _positions holds no position twice.
C1_CacheMirrorsPositions ==
    /\ _tail_cache = SeqToSet(_positions)
    /\ NoDuplicates(_positions)

\* C1 witness: a move() that dropped the tail and inserted the head has
\* just returned, with two or more segments.
C1_Witness ==
    /\ Moved /\ pc = "check"
    /\ ~pre.increase
    /\ Len(pre.positions) >= 2
    /\ _positions # pre.positions

\* C2 (as claimed): a completed randomize_apple leaves the target at a
\* position other than the one it held when the relocation started.
C2_RelocationMovesTarget ==
    Relocated => apple_position # reloc.start

\* C3: a completed randomize_apple leaves the target on a cell of the grid
\* that is not in the occupancy set.
C3_TargetOffBody ==
    Relocated =>
        /\ apple_position \in Cells
        /\ ~is_point_in_snake(_tail_cache, apple_position)
        /\ apple_position \notin SeqToSet(_positions)

\* C3 witness: a relocation that had to retry has completed while the body
\* has trailing segments.
C3_Witness ==
    /\ Relocated
    /\ reloc.retried
    /\ _tail_cache # {}

\* C4: the pending slot never holds the opposite of the active direction,
\* a dropped request leaves the slot as the requests before it left it, and
\* the direction a move() commits is never the opposite of the direction
\* that was active before it.
C4_NoReversal ==
    /\ [](next_direction # None => next_direction # Opposite(_direction))
    /\ [](Moved => _direction # Opposite(pre.direction))
    /\ [][(pc = "keys" /\ op' = "key_ignored") => UNCHANGED <<next_direction, _direction>>]_vars
    /\ [][(pc = "keys" /\ pc' = "keys") => _direction' = _direction]_vars

\* C4 witness: in one tick a request was accepted and then the request for
\* the opposite of the active direction was dropped, the slot unchanged.
C4_Witness ==
    /\ pc = "keys"
    /\ op = "key_ignored"
    /\ next_direction # None
    /\ Len(_positions) > 0

\* C5 (as claimed): after reset(), whatever the body was, there are no
\* segments, the occupancy set is empty, the direction is RIGHT, no
\* direction is pending and no growth is pending.
C5_ResetClearsAll ==
    op = "reset" =>
        /\ _positions = <<>>
        /\ _tail_cache = {}
        /\ _direction = START_SNAKE_DIRECTION
        /\ next_direction = None
        /\ _increase = FALSE

\* C6: a move() that starts with no growth pending leaves the number of
\* segments as it was; with segments, the tail is dropped and the old head
\* is the new first segment.
C6_LengthConserved ==
    (Moved /\ ~pre.increase) =>
        /\ Len(_positions) = Len(pre.positions)
        /\ Len(pre.positions) > 0 =>
               _positions = <<pre.position>> \o SubSeq(pre.positions, 1, Len(pre.positions) - 1)

\* C6 witness: such a move() has returned for a body of two or more segments.
C6_Witness ==
    /\ Moved
    /\ ~pre.increase
    /\ Len(pre.positions) >= 2
    /\ _positions[1] = pre.position

\* C7: increase() changes no segment and sets the flag; the move() after it
\* puts the old head in front of the unchanged former segments (one more
\* segment) and clears the flag; a move() that finds the flag clear does
\* not grow.
C7_GrowByOne ==
    /\ op = "increase" => (_increase /\ _positions = pre.positions)
    /\ (Moved /\ pre.increase) =>
           /\ Len(_positions) = Len(pre.positions) + 1
           /\ _positions = <<pre.position>> \o pre.positions
           /\ ~_increase
    /\ (Moved /\ ~pre.increase) => Len(_positions) = Len(pre.positions)

\* C7 witness: a growing move() has returned for a body that already had
\* segments.
C7_Witness ==
    /\ Moved
    /\ pre.increase
    /\ Len(pre.positions) >= 1
    /\ Len(_positions) = Len(pre.positions) + 1

\* C8: move() returns whether the new head is in the occupancy set as the
\* segment update left it: the cell the dropped tail vacated is free, the
\* cell of a kept tail (growth) is a collision, and a body without
\* segments and without growth never collides.
C8_CollisionAfterUpdate ==
    Moved =>
        /\ ret = (snake_position \in SeqToSet(_positions))
        /\ (~pre.increase /\ Len(pre.positions) > 0
              /\ snake_position = pre.positions[Len(pre.positions)]) => ~ret
        /\ (pre.increase /\ Len(pre.positions) > 0
              /\ snake_position = pre.positions[Len(pre.positions)]) => ret
        /\ (~pre.increase /\ Len(pre.positions) = 0) => ~ret

\* C8 witness: the head has moved into the cell the tail has just left,
\* and move() returned false.
C8_Witness ==
    /\ Moved
    /\ ~pre.increase
    /\ Len(pre.positions) > 0
    /\ snake_position = pre.positions[Len(pre.positions)]
    /\ ~ret

\* C9: between ticks (after move() and the controller's handling) the head
\* is in neither _positions nor _tail_cache.
C9_HeadOffBody ==
    pc \in {"keys", "draw", "quit"} =>
        /\ snake_position \notin SeqToSet(_positions)
        /\ snake_position \notin _tail_cache

\* C9 witness: the end of a tick in which move() reported a collision.
C9_Witness ==
    /\ Relocated
    /\ reloc.why = "reset"
    /\ snake_position \in pre.cache

\* C10: the head is always on a cell of the grid, and move() puts it one
\* cell further along the committed direction on the torus.
C10_HeadOnTorus ==
    /\ snake_position \in Cells
    /\ Moved => snake_position = TorusStep(pre.position, _direction)

\* C10 witness: a move() to the right from the last column has returned,
\* the head in column 0 of the same row.
C10_Witness ==
    /\ Moved
    /\ _direction = RIGHT
    /\ pre.position[1] = SCREEN_WIDTH - GRID_SIZE
    /\ snake_position = <<0, pre.position[2]>>

\* A tick's work is done: only the drawing is left, or the next tick's key
\* handling runs, or main() has left its loop.
TickEnd == pc \in {"draw", "keys", "quit"}

\* C11 (as claimed): between ticks the target is on no trailing segment.
C11_TargetOffSegments ==
    TickEnd => apple_position \notin SeqToSet(_positions)

\* The cells a relocation may end on for sure: outside the occupancy set
\* and other than the target's position.
FreeCells == Cells \ (_tail_cache \cup {apple_position})

\* randomize_apple() has just been entered (no sample drawn yet).
RelocationStarts == pc = "relocate" /\ ~reloc.retried /\ last_pos = apple_position

\* C12: under fair sampling, a relocation that starts while some cell is
\* neither occupied nor the target's own cell ends; so the retry loop can
\* run forever only when there is no such cell.
C12_RelocationEnds ==
    (RelocationStarts /\ FreeCells # {}) ~> (pc = "draw")

\* C12 witness: a relocation that started with free cells and drew
\* rejected samples has ended, the body having two or more segments.
C12_Witness ==
    /\ Relocated
    /\ reloc.retried
    /\ reloc.why = "eaten"
    /\ Len(_positions) >= 2
    /\ Cells \ (_tail_cache \cup {reloc.start}) # {}

\* main() has acted on move()'s result: the relocation runs or the tick's
\* drawing is next.
TickHandled == pc \in {"relocate", "draw"}

\* C13: in a tick whose move() returned true the controller resets and
\* relocates and does not call increase(), whether or not the head is on
\* the target: no segments, direction RIGHT, nothing pending.  In a tick
\* whose move() returned false, increase() and the relocation happen
\* exactly when the head is on the target.
C13_TickBranches ==
    TickHandled =>
        IF ret
        THEN /\ op = "reset"
             /\ reloc # None /\ reloc.why = "reset"
             /\ _positions = <<>> /\ _tail_cache = {}
             /\ _direction = START_SNAKE_DIRECTION
             /\ next_direction = None
             /\ ~_increase
        ELSE IF reloc = None
             THEN /\ op = "move"
                  /\ snake_position # apple_position
                  /\ ~_increase
             ELSE /\ op = "increase"
                  /\ reloc.why = "eaten"
                  /\ snake_position = reloc.start
                  /\ _increase

\* C13 witness: a tick whose move() returned true with the new head on the
\* target has been handled.
C13_Witness ==
    /\ pc = "draw"
    /\ ret
    /\ reloc.start = snake_position

C15_PendingCommitted ==
    /\ [](Moved =>
            /\ next_direction = None
            /\ _direction = IF pre.next_direction = None
                            THEN pre.direction
                            ELSE pre.next_direction)
    /\ [][\A k \in Keys : (KeyDown(k) /\ KeyAccepted(k)) => next_direction' = KeyDirection(k)]_vars
    /\ [][(pc = "keys" /\ pc' \in {"keys", "quit"}) => _direction' = _direction]_vars

\* C15 witness: a move() has committed a pending direction other than the
\* active one, for a body with segments.
C15_Witness ==
    /\ Moved
    /\ pre.next_direction # None
    /\ pre.next_direction # pre.direction
    /\ _direction = pre.next_direction
    /\ Len(pre.positions) > 0

\* C16: the target's position changes only inside a relocation, and a
\* relocation runs only in a tick whose move() returned true (reset) or
\* put the head on the target; every other step, key handling included,
\* leaves the target where it is.
C16_TargetMovesOnlyWhenDue ==
    [][apple_position' # apple_position =>
          /\ pc = "relocate"
          /\ IF reloc.why = "reset"
             THEN ret /\ op = "reset"
             ELSE ~ret /\ snake_position = reloc.start]_vars

\* C16 witness: the target was eaten and has moved to another cell, off
\* the head.
C16_Witness ==
    /\ Relocated
    /\ reloc.why = "eaten"
    /\ apple_position # reloc.start
    /\ apple_position # snake_position
    /\ snake_position = reloc.start

\* C17 (as claimed): the cell move() recorded in _last is, from that move()
\* until draw() erases it, neither the head's cell nor a trailing
\* segment's cell.
C17_ErasedCellIsFree ==
    _last # None =>
        /\ _last # snake_position
        /\ _last \notin SeqToSet(_positions)

\* C18: no tick faults: whenever there are trailing segments, the tail is
\* in the occupancy set, so the set removal of move() finds it; a
\* collision is the value move() returns, and the tick that got it has
\* reset the body.
C18_NoFault ==
    /\ ~fault
    /\ Len(_positions) > 0 => _positions[Len(_positions)] \in _tail_cache
    /\ (Moved /\ ret) => pc = "check"
    /\ (TickHandled /\ ret) => (op = "reset" /\ _positions = <<>>)

\* C18 witness: a move() that dropped the tail has returned true, without
\* a fault.
C18_Witness ==
    /\ Moved
    /\ ret
    /\ ~pre.increase
    /\ Len(pre.positions) > 0
    /\ _last = pre.positions[Len(pre.positions)]

\* Two cells one step apart along one axis of the torus.
Adjacent(a, b) == \E d \in Directions : TorusStep(a, d) = b

\* C19: the body is a connected chain: the first trailing segment is one
\* cell from the head, and every further segment one cell from the one
\* before it (across the edges of the torus too).
C19_BodyConnected ==
    /\ Len(_positions) > 0 => Adjacent(snake_position, _positions[1])
    /\ \A i \in 1..(Len(_positions) - 1) : Adjacent(_positions[i], _positions[i + 1])

\* C19 witness: between ticks, a body of full length whose head and first
\* segment are neighbours across the left and right edges.
C19_Witness ==
    /\ pc = "keys"
    /\ Len(_positions) = MaxLen
    /\ snake_position[1] = 0
    /\ _positions[1][1] = SCREEN_WIDTH - GRID_SIZE
    /\ _positions[2][2] # _positions[1][2]

====
